---------------------------- MODULE Spec2Model ----------------------------
(***************************************************************************)
(* A model of src/app.py, the Streamlit dashboard script of the            *)
(* Correlation_Multistrategy repository.                                   *)
(*                                                                         *)
(* Text is modelled as a sequence of one-character strings, so that        *)
(* `"_" in s`, s.split("_", 1) and s.endswith(t) are computed, character   *)
(* by character, as Python computes them.  A workbook is the sequence of   *)
(* its sheets; a sheet has a name, a column count and rows; a row is the   *)
(* sequence of its cells.  A calendar value is <<day, time-of-day>>.       *)
(* StressPnL values are integers (basis points); medians and quartiles are *)
(* kept multiplied by 4, which makes linear interpolation exact.           *)
(***************************************************************************)
EXTENDS Integers, Sequences, FiniteSets, TLC

\* ------------------------------------------------------------------------
\* Bounds of the model
\* ------------------------------------------------------------------------
MaxNameLen == 3
MaxSheets == 3

\* ------------------------------------------------------------------------
\* Text
\* ------------------------------------------------------------------------
Chars == {"P", "_"}

US == "_"

\* s + t
Concat(s, t) == s \o t

\* "_" in s
HasUnderscore(s) == \E k \in 1..Len(s) : s[k] = US

\* s.find("_") as a 1-based position; only used when "_" in s
FirstUnderscore(s) == CHOOSE k \in 1..Len(s) : s[k] = US /\ \A j \in 1..(k-1) : s[j] # US

\* s.endswith(t)
EndsWith(s, t) ==
  /\ Len(t) <= Len(s)
  /\ SubSeq(s, Len(s) - Len(t) + 1, Len(s)) = t

\* Every text of 1..n characters over Chars
TextsUpTo(n) == UNION {[1..k -> Chars] : k \in 1..n}

\* The sheet names and scenario tokens of the worked examples
PORT1_USDN_REL == <<"P","O","R","T","1","_","U","S","D","N","_","R","E","L">>
MY_PORT_USDN == <<"M","Y","_","P","O","R","T","_","U","S","D","N">>
ALPHA_RATES_UP == <<"A","L","P","H","A","_","R","A","T","E","S","_","U","P">>
ALPHA_RATES_DOWN == <<"A","L","P","H","A","_","R","A","T","E","S","_","D","O","W","N">>
BETA_RATES_UP == <<"B","E","T","A","_","R","A","T","E","S","_","U","P">>
CASH == <<"C","A","S","H">>
USDN == <<"U","S","D","N">>
USDN_REL == <<"U","S","D","N","_","R","E","L">>
RATES_UP == <<"R","A","T","E","S","_","U","P">>
RATES_DOWN == <<"R","A","T","E","S","_","D","O","W","N">>
UNKNOWN == <<"U","N","K","N","O","W","N">>

ExampleNames ==
  {PORT1_USDN_REL, MY_PORT_USDN, ALPHA_RATES_UP, ALPHA_RATES_DOWN, BETA_RATES_UP, CASH}

SheetNames == TextsUpTo(MaxNameLen) \cup ExampleNames

\* ------------------------------------------------------------------------
\* The scenario registry and the resolver of spec.md 4.1 and 4.2.  src/app.py
\* holds no registry: these two definitions state what the specification
\* asks for, and the resolver of the code is compared with them.
\* ------------------------------------------------------------------------
Registries ==
  { <<>>, <<USDN_REL, USDN>>, <<RATES_DOWN, RATES_UP>>, <<USDN>>,
    <<<<"P">>>>, <<<<"P","_","P">>, <<"P">>>>, <<<<"_","P">>, <<"P">>>> }

\* Resolve(sheetName, registry) of spec.md 4.2: the first token, in the
\* registry's stored order, such that sheetName ends with "_" + token.
RECURSIVE LongestSuffixMatch(_, _)
LongestSuffixMatch(sheetName, registry) ==
  IF registry = <<>> THEN <<sheetName, UNKNOWN>>
  ELSE LET token == Head(registry)
       IN IF EndsWith(sheetName, Concat(<<US>>, token))
          THEN <<SubSeq(sheetName, 1, Len(sheetName) - Len(token) - 1), token>>
          ELSE LongestSuffixMatch(sheetName, Tail(registry))

\* ------------------------------------------------------------------------
\* load_stress_data: the identity of a sheet (src/app.py 374-377)
\* ------------------------------------------------------------------------
\* sheet_name.split("_", 1) when "_" in sheet_name
SplitFirst(s) ==
  LET k == FirstUnderscore(s)
  IN <<SubSeq(s, 1, k - 1), SubSeq(s, k + 1, Len(s))>>

\* portfolio, scenario_name of a sheet
ResolveSheetName(sheet_name) ==
  IF HasUnderscore(sheet_name)
  THEN SplitFirst(sheet_name)
  ELSE <<sheet_name, sheet_name>>


\* ------------------------------------------------------------------------
\* Workbooks
\* ------------------------------------------------------------------------
\* A cell of the first column is a calendar value <<day, time-of-day>>.
Day(d) == d[1]

\* The row `seed` of a sheet of ncols columns: its first cell is the date
\* <<seed, 0>>, and every other cell tells the row and the column it is in.
Row(seed, ncols) == [j \in 1..ncols |-> IF j = 1 THEN <<seed, 0>> ELSE 10 * seed + j]

Sheet(name, ncols, seeds) ==
  [name |-> name, ncols |-> ncols, rows |-> [r \in 1..Len(seeds) |-> Row(seeds[r], ncols)]]

\* Column counts and row lists of the sheets whose structure varies
ColCounts == {4, 5, 6}

RowSeeds == {<<>>, <<1>>, <<1, 1>>, <<1, 2>>}

\* The names such a workbook gives its sheets, by position
ExampleOrder ==
  <<ALPHA_RATES_UP, ALPHA_RATES_DOWN, BETA_RATES_UP, CASH, MY_PORT_USDN, PORT1_USDN_REL>>

\* Workbooks of 1..MaxSheets sheets with every column count and row list
StructWorkbooks ==
  UNION { { [k \in 1..n |-> Sheet(ExampleOrder[k], c[k], s[k])] :
              c \in [1..n -> ColCounts], s \in [1..n -> RowSeeds] } :
          n \in 1..MaxSheets }

\* Workbooks of one or two well-formed sheets with every pair of names
\* (the sheet names of a workbook are distinct)
NameWorkbooks ==
  { <<Sheet(a, 5, <<1>>)>> : a \in SheetNames }
    \cup { <<Sheet(n[1], 5, <<1>>), Sheet(n[2], 5, <<2>>)>> :
             n \in {m \in SheetNames \X SheetNames : m[1] # m[2]} }

Workbooks == StructWorkbooks \cup NameWorkbooks

\* ------------------------------------------------------------------------
\* load_stress_data (src/app.py 368-395)
\* ------------------------------------------------------------------------
\* pd.to_datetime of a column that read_excel already typed as dates
to_datetime(cell) == cell

\* LoopBody with the positional renames guarded: a sheet short of columns is
\* skipped instead of raising
LoopBodySkipShort(sheet) ==
  LET id == ResolveSheetName(sheet.name)
  IN [raised |-> FALSE, portfolio |-> id[1], scenario_name |-> id[2],
      frame |-> IF sheet.ncols < 5 THEN <<>>
                ELSE [r \in 1..Len(sheet.rows) |->
                        [Date |-> sheet.rows[r][1],
                         Scenario |-> sheet.rows[r][3],
                         StressPnL |-> sheet.rows[r][5],
                         Portfolio |-> id[1],
                         ScenarioName |-> id[2]]]]

\* What one iteration of the for loop does with a sheet: the IndexError of
\* df.columns[0], [2] or [4], or the frame appended to records.
LoopBody(sheet) ==
  LET id == ResolveSheetName(sheet.name)
  IN IF sheet.ncols < 5
     THEN [raised |-> TRUE, portfolio |-> id[1], scenario_name |-> id[2], frame |-> <<>>]
     ELSE [raised |-> FALSE, portfolio |-> id[1], scenario_name |-> id[2],
           frame |-> [r \in 1..Len(sheet.rows) |->
                        [Date |-> to_datetime(sheet.rows[r][1]),
                         Scenario |-> sheet.rows[r][3],
                         StressPnL |-> sheet.rows[r][5],
                         Portfolio |-> id[1],
                         ScenarioName |-> id[2]]]]

RECURSIVE Flatten(_)
Flatten(frames) ==
  IF frames = <<>> THEN <<>> ELSE Head(frames) \o Flatten(Tail(frames))

RECURSIVE DropDuplicates(_)
DropDuplicates(s) ==
  IF s = <<>> THEN <<>>
  ELSE LET rest == DropDuplicates(SubSeq(s, 1, Len(s) - 1))
       IN IF \E i \in 1..Len(rest) : rest[i] = s[Len(s)] THEN rest ELSE Append(rest, s[Len(s)])

\* pd_concat followed by drop_duplicates()
pd_concat_dedup(frames) == DropDuplicates(Flatten(frames))

\* pd.concat(records, ignore_index=True)
RECURSIVE pd_concat(_)
pd_concat(frames) ==
  IF frames = <<>> THEN <<>> ELSE Head(frames) \o pd_concat(Tail(frames))

\* The whole call, as the script's runs use it
load_stress_data(workbook) ==
  LET bodies == [k \in 1..Len(workbook) |-> LoopBody(workbook[k])]
  IN IF \E k \in 1..Len(workbook) : bodies[k].raised
     THEN [raised |-> TRUE, df |-> <<>>]
     ELSE [raised |-> FALSE, df |-> pd_concat([k \in 1..Len(workbook) |-> bodies[k].frame])]

\* ------------------------------------------------------------------------
\* load_corr_data (src/app.py 31-36)
\* ------------------------------------------------------------------------
\* A "Correlation Clean" sheet is the sequence of its rows, a row being
\* [Date |-> calendar value, value |-> the cell of the series column].

\* d1 <= d2 for calendar values
DateLE(d1, d2) == d1[1] < d2[1] \/ (d1[1] = d2[1] /\ d1[2] <= d2[2])

IndexPermutations(n) == {f \in [1..n -> 1..n] : \A i, j \in 1..n : i # j => f[i] # f[j]}

\* load_corr_data without the sort_index()
load_corr_data_unsorted(sheet) == {sheet}

\* The tables the call may return: the rows of the sheet, indexed by their
\* dates and ordered by sort_index().  The default sort is not a stable one,
\* so rows of equal date may come in any order.
load_corr_data(sheet) ==
  { [i \in 1..Len(sheet) |-> [Date |-> to_datetime(sheet[f[i]].Date), value |-> sheet[f[i]].value]] :
      f \in { g \in IndexPermutations(Len(sheet)) :
                \A i, j \in 1..Len(sheet) : i < j => DateLE(sheet[g[i]].Date, sheet[g[j]].Date) } }

\* ------------------------------------------------------------------------
\* Median and quartiles of the bucket (src/app.py 596-604)
\* ------------------------------------------------------------------------
NaN == <<"NaN">>

RECURSIVE Insert(_, _)
Insert(x, s) ==
  IF s = <<>> THEN <<x>>
  ELSE IF x <= Head(s) THEN <<x>> \o s ELSE <<Head(s)>> \o Insert(x, Tail(s))

RECURSIVE SortValues(_)
SortValues(s) == IF s = <<>> THEN <<>> ELSE Insert(Head(s), SortValues(Tail(s)))

\* Four times Series.median(): the middle value, or the mean of the two
\* middle values
Median4(xs) ==
  LET s == SortValues(xs)
      n == Len(xs)
  IN IF n = 0 THEN NaN
     ELSE IF n % 2 = 1 THEN 4 * s[(n + 1) \div 2]
     ELSE 2 * (s[n \div 2] + s[n \div 2 + 1])

\* Quantile4 without the interpolation: the value at the nearest rank
Quantile4Nearest(xs, k) ==
  LET s == SortValues(xs)
      n == Len(xs)
      pos4 == (n - 1) * k
  IN IF n = 0 THEN NaN
     ELSE IF pos4 % 4 = 0 THEN 4 * s[pos4 \div 4 + 1]
     ELSE IF pos4 % 4 < 2 \/ (pos4 % 4 = 2 /\ (pos4 \div 4) % 2 = 0)
          THEN 4 * s[pos4 \div 4 + 1]
          ELSE 4 * s[pos4 \div 4 + 2]

\* Four times Series.quantile(k/4), pandas' default linear interpolation:
\* at position (n-1)*k/4 of the sorted values, lo + (hi - lo) * fraction
Quantile4(xs, k) ==
  LET s == SortValues(xs)
      n == Len(xs)
      pos4 == (n - 1) * k
      lo == pos4 \div 4 + 1
  IN IF n = 0 THEN NaN
     ELSE IF pos4 % 4 = 0 THEN 4 * s[lo]
     ELSE 4 * s[lo] + (pos4 % 4) * (s[lo + 1] - s[lo])

\* The StressPnL values of the rows of a scenario
ValuesOf(df, scenario) ==
  LET rows == SelectSeq(df, LAMBDA r : r.ScenarioName = scenario)
  IN [i \in 1..Len(rows) |-> rows[i].StressPnL]

\* df_bucket.groupby("ScenarioName", as_index=False).agg(...): one row of
\* statistics per group.  ScenarioName is a categorical of the selected
\* scenarios, and whether a category without rows makes a group (of NaN
\* statistics) is groupby's `observed` default, which differs between pandas
\* releases.
GroupbyAgg(df_bucket, categories, observed) ==
  LET groups == IF observed
                THEN {c \in categories : ValuesOf(df_bucket, c) # <<>>}
                ELSE categories
  IN [c \in groups |->
        [bucket_median |-> Median4(ValuesOf(df_bucket, c)),
         q25 |-> Quantile4(ValuesOf(df_bucket, c), 1),
         q75 |-> Quantile4(ValuesOf(df_bucket, c), 3)]]

\* df_analysis.merge(df_bucket_stats, on="ScenarioName", how="inner")
MergeInner(df_analysis, stats) ==
  LET kept == SelectSeq(df_analysis, LAMBDA r : r.ScenarioName \in DOMAIN stats)
  IN [i \in 1..Len(kept) |->
        [ScenarioName |-> kept[i].ScenarioName,
         StressPnL |-> kept[i].StressPnL,
         bucket_median |-> stats[kept[i].ScenarioName].bucket_median,
         q25 |-> stats[kept[i].ScenarioName].q25,
         q75 |-> stats[kept[i].ScenarioName].q75]]

\* df_filtered[df_filtered["Portfolio"] == selected_portfolio]
AnalysisRows(df, p) == SelectSeq(df, LAMBDA r : r.Portfolio = p)

\* The bucket taken from the whole selection, the analysis portfolio included
BucketRowsAll(df, p) == df

\* df_filtered[df_filtered["Portfolio"] != selected_portfolio]
BucketRows(df, p) == SelectSeq(df, LAMBDA r : r.Portfolio # p)

\* ------------------------------------------------------------------------
\* Stress workbooks of the Stress Test tab
\* ------------------------------------------------------------------------
MaxStressSheets == 3

Dates == {<<1, 0>>, <<2, 0>>}

Pnls == {10, 20}

\* The row of a stress sheet: Date, -, Scenario label, -, StressPnL
StressRow(date, pnl) == <<date, 0, 0, 0, pnl>>

StressSheet(name, rows) == [name |-> name, ncols |-> 5, rows |-> rows]

\* One sheet per portfolio and scenario, named <portfolio>_<scenario>
StressNames ==
  << <<"A","_","X">>, <<"A","_","Y">>, <<"B","_","X">>,
     <<"B","_","Y">>, <<"C","_","X">>, <<"C","_","Y">> >>

RECURSIVE PickSheets(_, _, _)
PickSheets(k, S, f) ==
  IF k > Len(StressNames) THEN <<>>
  ELSE (IF k \in S THEN <<StressSheet(StressNames[k], <<StressRow(f[k][1], f[k][2])>>)>> ELSE <<>>)
         \o PickSheets(k + 1, S, f)

\* A=10, B=20, C=30 under one scenario at one date
PeerExample ==
  << StressSheet(StressNames[1], <<StressRow(<<1, 0>>, 10)>>),
     StressSheet(StressNames[3], <<StressRow(<<1, 0>>, 20)>>),
     StressSheet(StressNames[5], <<StressRow(<<1, 0>>, 30)>>) >>

\* Sheets of several rows, a date twice in a sheet, a negative value
DuplicateExample ==
  << StressSheet(StressNames[1], <<StressRow(<<1, 0>>, 10), StressRow(<<2, 0>>, 50)>>),
     StressSheet(StressNames[3], <<StressRow(<<1, 0>>, 20), StressRow(<<1, 0>>, 40)>>),
     StressSheet(StressNames[5], <<StressRow(<<1, 0>>, -30), StressRow(<<2, 0>>, 70)>>) >>

\* Dates with a time of day, which the date selector's "%Y/%m/%d" drops
TimeOfDayExample ==
  << StressSheet(StressNames[1], <<StressRow(<<1, 1>>, 10)>>),
     StressSheet(StressNames[3], <<StressRow(<<1, 1>>, 20)>>) >>

\* A workbook without any row
EmptyExample == << StressSheet(StressNames[1], <<>>) >>

StressWorkbooks ==
  { PickSheets(1, S, f) :
      S \in {T \in SUBSET (1..Len(StressNames)) : T # {} /\ Cardinality(T) <= MaxStressSheets},
      f \in [1..Len(StressNames) -> Dates \X Pnls] }
    \cup {PeerExample, DuplicateExample, TimeOfDayExample, EmptyExample}

\* ------------------------------------------------------------------------
\* State
\* ------------------------------------------------------------------------
VARIABLES
  xls,            \* load_stress_data: the workbook at path
  lpc,            \* load_stress_data: "call", "for", "returned" or "raised"
  sheet_idx,      \* the number of sheets the for loop has taken
  sheet_name,     \* the loop's sheet_name
  portfolio,      \* the loop's portfolio
  scenario_name,  \* the loop's scenario_name
  records,        \* the list of per-sheet frames
  stress_ret,     \* what the call returned (None until it returns)
  corr_sheet,     \* load_corr_data: the "Correlation Clean" sheet at path
  cpc,            \* load_corr_data: "call" or "returned"
  corr_ret,       \* what load_corr_data returned
  pc,             \* the place of the script run
  current_tab,    \* st.session_state.current_tab
  rendered,       \* the elements the run has put on the page
  stress_data,
  selected_date,
  df_filtered,
  selected_portfolios,
  selected_scenarios,
  selected_portfolio,
  df_bucket,
  df_bucket_stats,
  df_plot,
  disk,           \* the content of the four workbook files
  cache,          \* the memo of st.cache_data: (function, path) -> value
  chart_type,     \* the sidebar's chart selector
  corrEGQ,
  corrE7X,
  selected_series,
  last_load,      \* history: the latest load call, its path, the content the
                  \* file had then and the value it returned
  modifications   \* history: how many times a file has been rewritten

loadVars == <<xls, lpc, sheet_idx, sheet_name, portfolio, scenario_name, records, stress_ret>>

corrVars == <<corr_sheet, cpc, corr_ret>>

tabVars ==
  <<pc, current_tab, rendered, stress_data, selected_date, df_filtered, selected_portfolios,
    selected_scenarios, selected_portfolio, df_bucket, df_bucket_stats, df_plot>>

runVars ==
  <<disk, cache, chart_type, corrEGQ, corrE7X, selected_series, last_load, modifications>>

vars == <<loadVars, corrVars, tabVars, runVars>>

None == <<"None">>

NaT == <<"NaT">>

\* ------------------------------------------------------------------------
\* A call of load_stress_data, statement by statement
\* ------------------------------------------------------------------------
IdleLoad ==
  /\ xls = None
  /\ lpc = "idle"
  /\ sheet_idx = 0
  /\ sheet_name = None
  /\ portfolio = None
  /\ scenario_name = None
  /\ records = <<>>
  /\ stress_ret = None

InitLoad ==
  /\ xls \in Workbooks
  /\ lpc = "call"
  /\ sheet_idx = 0
  /\ sheet_name = None
  /\ portfolio = None
  /\ scenario_name = None
  /\ records = <<>>
  /\ stress_ret = None

\* xls = pd.ExcelFile(path); records = []
LoadOpen ==
  /\ lpc = "call"
  /\ lpc' = "for"
  /\ sheet_idx' = 0
  /\ records' = <<>>
  /\ UNCHANGED <<xls, sheet_name, portfolio, scenario_name, stress_ret>>
  /\ UNCHANGED <<corrVars, tabVars, runVars>>

\* One iteration of `for sheet_name in xls.sheet_names`
LoadSheet ==
  /\ lpc = "for"
  /\ sheet_idx < Len(xls)
  /\ LET body == LoopBody(xls[sheet_idx + 1])
     IN /\ sheet_idx' = sheet_idx + 1
        /\ sheet_name' = xls[sheet_idx + 1].name
        /\ portfolio' = body.portfolio
        /\ scenario_name' = body.scenario_name
        /\ \/ /\ body.raised
              /\ lpc' = "raised"
              /\ records' = records
           \/ /\ ~body.raised
              /\ lpc' = "for"
              /\ records' = Append(records, body.frame)
  /\ UNCHANGED <<xls, stress_ret>>
  /\ UNCHANGED <<corrVars, tabVars, runVars>>

\* return pd.concat(records, ignore_index=True)
LoadReturn ==
  /\ lpc = "for"
  /\ sheet_idx = Len(xls)
  /\ lpc' = "returned"
  /\ stress_ret' = pd_concat(records)
  /\ UNCHANGED <<xls, sheet_idx, sheet_name, portfolio, scenario_name, records>>
  /\ UNCHANGED <<corrVars, tabVars, runVars>>

\* ------------------------------------------------------------------------
\* A call of load_corr_data
\* ------------------------------------------------------------------------
MaxCorrRows == 3

CorrDays == {1, 2, 3}

CorrValues == {-5, 5}

CorrSheets ==
  UNION { [1..n -> [Date : {<<d, 0>> : d \in CorrDays}, value : CorrValues]] : n \in 0..MaxCorrRows }

IdleCorr ==
  /\ corr_sheet = None
  /\ cpc = "idle"
  /\ corr_ret = None

InitCorr ==
  /\ corr_sheet \in CorrSheets
  /\ cpc = "call"
  /\ corr_ret = None

CallLoadCorrData ==
  /\ cpc = "call"
  /\ corr_ret' \in load_corr_data(corr_sheet)
  /\ cpc' = "returned"
  /\ UNCHANGED corr_sheet
  /\ UNCHANGED <<loadVars, tabVars, runVars>>

\* ------------------------------------------------------------------------
\* The Stress Test tab (src/app.py 414-695)
\* ------------------------------------------------------------------------
IdleTab ==
  /\ pc = "idle"
  /\ current_tab = None
  /\ rendered = {}
  /\ stress_data = None
  /\ selected_date = None
  /\ df_filtered = None
  /\ selected_portfolios = None
  /\ selected_scenarios = None
  /\ selected_portfolio = None
  /\ df_bucket = None
  /\ df_bucket_stats = None
  /\ df_plot = None

\* The run stands at `with tab_stress:` with the records of a workbook
InitTab ==
  /\ pc = "tab_stress"
  /\ current_tab = "Correlation"
  /\ rendered = {}
  /\ \E workbook \in StressWorkbooks : stress_data = load_stress_data(workbook).df
  /\ selected_date = None
  /\ df_filtered = None
  /\ selected_portfolios = None
  /\ selected_scenarios = None
  /\ selected_portfolio = None
  /\ df_bucket = None
  /\ df_bucket_stats = None
  /\ df_plot = None

\* The options of the date selector: strftime("%Y/%m/%d") of every date
DateOptions(data) == {<<"%Y/%m/%d", Day(data[i].Date)>> : i \in 1..Len(data)}

\* pd.to_datetime(selected_date_str, format="%Y/%m/%d"); the selector of an
\* empty option list returns None
ParseDate(str) == IF str = None THEN NaT ELSE <<str[2], 0>>

\* Lines 414-448: the title, the date selector, the rows of the date
StressDate ==
  /\ pc = "tab_stress"
  /\ current_tab' = "StressTest"
  /\ \E selected_date_str \in
          (IF DateOptions(stress_data) = {} THEN {None} ELSE DateOptions(stress_data)) :
       LET date == ParseDate(selected_date_str)
           rows == SelectSeq(stress_data, LAMBDA r : r.Date = date)
       IN /\ selected_date' = date
          /\ df_filtered' = rows
          /\ \/ /\ rows = <<>>
                /\ rendered' = rendered \cup {"stress_title", "warning_no_data"}
                /\ pc' = "stopped"
             \/ /\ rows # <<>>
                /\ rendered' = rendered \cup {"stress_title"}
                /\ pc' = "portfolios"
  /\ UNCHANGED <<stress_data, selected_portfolios, selected_scenarios, selected_portfolio,
                 df_bucket, df_bucket_stats, df_plot>>
  /\ UNCHANGED <<loadVars, corrVars, runVars>>

\* The portfolio selector without its guard: an empty selection filters the
\* rows and the run goes on to the scenario selector
StressPortfoliosNoStop ==
  /\ pc = "portfolios"
  /\ \E selection \in SUBSET {df_filtered[i].Portfolio : i \in 1..Len(df_filtered)} :
       /\ selected_portfolios' = selection
       /\ df_filtered' = SelectSeq(df_filtered, LAMBDA r : r.Portfolio \in selection)
       /\ pc' = "scenarios"
       /\ UNCHANGED rendered
  /\ UNCHANGED <<current_tab, stress_data, selected_date, selected_scenarios, selected_portfolio,
                 df_bucket, df_bucket_stats, df_plot>>
  /\ UNCHANGED <<loadVars, corrVars, runVars>>

\* Lines 453-475: the portfolio selector
StressPortfolios ==
  /\ pc = "portfolios"
  /\ \E selection \in SUBSET {df_filtered[i].Portfolio : i \in 1..Len(df_filtered)} :
       /\ selected_portfolios' = selection
       /\ \/ /\ selection = {}
             /\ rendered' = rendered \cup {"warning_no_portfolio"}
             /\ pc' = "stopped"
             /\ UNCHANGED df_filtered
          \/ /\ selection # {}
             /\ df_filtered' = SelectSeq(df_filtered, LAMBDA r : r.Portfolio \in selection)
             /\ pc' = "scenarios"
             /\ UNCHANGED rendered
  /\ UNCHANGED <<current_tab, stress_data, selected_date, selected_scenarios, selected_portfolio,
                 df_bucket, df_bucket_stats, df_plot>>
  /\ UNCHANGED <<loadVars, corrVars, runVars>>

\* Lines 480-515: the scenario selector
StressScenarios ==
  /\ pc = "scenarios"
  /\ \E selection \in SUBSET {df_filtered[i].ScenarioName : i \in 1..Len(df_filtered)} :
       /\ selected_scenarios' = selection
       /\ \/ /\ selection = {}
             /\ rendered' = rendered \cup {"warning_no_scenario"}
             /\ pc' = "stopped"
             /\ UNCHANGED df_filtered
          \/ /\ selection # {}
             /\ df_filtered' = SelectSeq(df_filtered, LAMBDA r : r.ScenarioName \in selection)
             /\ pc' = "bar_chart"
             /\ UNCHANGED rendered
  /\ UNCHANGED <<current_tab, stress_data, selected_date, selected_portfolios, selected_portfolio,
                 df_bucket, df_bucket_stats, df_plot>>
  /\ UNCHANGED <<loadVars, corrVars, runVars>>

\* Lines 520-568: the grouped bar chart and its download
StressBarChart ==
  /\ pc = "bar_chart"
  /\ rendered' = rendered \cup {"bar_chart", "download_stress_pnl"}
  /\ pc' = "comparison"
  /\ UNCHANGED <<current_tab, stress_data, selected_date, df_filtered, selected_portfolios,
                 selected_scenarios, selected_portfolio, df_bucket, df_bucket_stats, df_plot>>
  /\ UNCHANGED <<loadVars, corrVars, runVars>>

\* Lines 572-695: the analysis portfolio against the bucket of the others
StressComparison ==
  /\ pc = "comparison"
  /\ \E analysis \in selected_portfolios :
       LET bucket == BucketRows(df_filtered, analysis)
       IN /\ selected_portfolio' = analysis
          /\ df_bucket' = bucket
          /\ \/ /\ bucket = <<>>
                /\ rendered' = rendered \cup {"warning_no_bucket"}
                /\ pc' = "stopped"
                /\ UNCHANGED <<df_bucket_stats, df_plot>>
             \/ /\ bucket # <<>>
                /\ \E observed \in BOOLEAN :
                     /\ df_bucket_stats' = GroupbyAgg(bucket, selected_scenarios, observed)
                     /\ df_plot' = MergeInner(AnalysisRows(df_filtered, analysis),
                                              GroupbyAgg(bucket, selected_scenarios, observed))
                /\ rendered' = rendered \cup {"bucket_chart", "download_vs_bucket"}
                /\ pc' = "end"
  /\ UNCHANGED <<current_tab, stress_data, selected_date, df_filtered, selected_portfolios,
                 selected_scenarios>>
  /\ UNCHANGED <<loadVars, corrVars, runVars>>

\* ------------------------------------------------------------------------
\* The comparison on buckets of every size
\* ------------------------------------------------------------------------
MaxPeers == 4

PeerValues == {-10, 10, 20, 30}

PA == <<"A">>
PB == <<"B">>
PC == <<"C">>
SX == <<"X">>

\* The rows left by the selectors: portfolio A with 10, and the values of
\* `peers` held in turn by portfolios B and C, all under scenario X at day 1
BucketFrame(peers) ==
  <<[Date |-> <<1, 0>>, Scenario |-> 0, StressPnL |-> 10, Portfolio |-> PA, ScenarioName |-> SX]>>
    \o [i \in 1..Len(peers) |->
          [Date |-> <<1, 0>>, Scenario |-> 0, StressPnL |-> peers[i],
           Portfolio |-> IF i % 2 = 1 THEN PB ELSE PC, ScenarioName |-> SX]]

\* The run stands at the comparison, after the bar chart
InitBucket ==
  /\ pc = "comparison"
  /\ current_tab = "StressTest"
  /\ rendered = {"stress_title", "bar_chart", "download_stress_pnl"}
  /\ \E peers \in UNION {[1..n -> PeerValues] : n \in 0..MaxPeers} :
       /\ stress_data = BucketFrame(peers)
       /\ df_filtered = BucketFrame(peers)
       /\ selected_portfolios = {BucketFrame(peers)[i].Portfolio : i \in 1..(Len(peers) + 1)}
  /\ selected_date = <<1, 0>>
  /\ selected_scenarios = {SX}
  /\ selected_portfolio = None
  /\ df_bucket = None
  /\ df_bucket_stats = None
  /\ df_plot = None

\* ------------------------------------------------------------------------
\* The script run: the cached loads and the two tabs (src/app.py 15-695)
\* ------------------------------------------------------------------------
MaxModifications == 2

CorrEGQPath == "corrEGQ.xlsx"
CorrE7XPath == "corrE7X.xlsx"
StressEGQPath == "stress_test_totEGQ.xlsx"
StressE7XPath == "stress_test_totE7X.xlsx"

CorrPaths == {CorrEGQPath, CorrE7XPath}

StressPaths == {StressEGQPath, StressE7XPath}

ChartTypes == {"EGQ vs Index and Cash", "E7X vs Funds"}

\* st.cache_data keys a function by its module, name and source text.  The
\* definition of load_stress_data at line 46 has another text than those at
\* lines 228, 277, 323 and 369, which are the same text.
CorrFn == "load_corr_data@32"
StressFnFirst == "load_stress_data@46"
StressFnLater == "load_stress_data@228"

\* The "Correlation Clean" sheets a correlation file may hold
RunCorrSheets ==
  { <<[Date |-> <<2, 0>>, value |-> 5], [Date |-> <<1, 0>>, value |-> -5]>>,
    <<[Date |-> <<1, 0>>, value |-> 5]>> }

\* The workbooks a stress file may hold; the last has a sheet of 4 columns
RunWorkbooks ==
  { << StressSheet(StressNames[1], <<StressRow(<<1, 0>>, 10)>>),
       StressSheet(StressNames[3], <<StressRow(<<1, 0>>, 20)>>) >>,
    << StressSheet(StressNames[1], <<StressRow(<<1, 0>>, 30)>>) >>,
    << Sheet(ALPHA_RATES_UP, 4, <<1>>) >> }

FileContents(path) == IF path \in CorrPaths THEN RunCorrSheets ELSE RunWorkbooks

NoLoad == [path |-> "", content |-> <<>>, value |-> <<>>]

IdleRun ==
  /\ disk = None
  /\ cache = None
  /\ chart_type = None
  /\ corrEGQ = None
  /\ corrE7X = None
  /\ selected_series = None
  /\ last_load = NoLoad
  /\ modifications = 0

\* The first run of a fresh server: nothing is cached yet
InitRun ==
  /\ disk \in {d \in [CorrPaths \cup StressPaths -> RunCorrSheets \cup RunWorkbooks] :
                 \A path \in DOMAIN d : d[path] \in FileContents(path)}
  /\ cache = <<>>
  /\ chart_type \in ChartTypes
  /\ corrEGQ = None
  /\ corrE7X = None
  /\ selected_series = None
  /\ last_load = NoLoad
  /\ modifications = 0
  /\ pc = "L39"
  /\ current_tab = None
  /\ rendered = {}
  /\ stress_data = None
  /\ selected_date = None
  /\ df_filtered = None
  /\ selected_portfolios = None
  /\ selected_scenarios = None
  /\ selected_portfolio = None
  /\ df_bucket = None
  /\ df_bucket_stats = None
  /\ df_plot = None

tabLocals ==
  <<selected_date, df_filtered, selected_portfolios, selected_scenarios, selected_portfolio,
    df_bucket, df_bucket_stats, df_plot>>

\* The file at a path is rewritten with another content
ModifyFile ==
  /\ modifications < MaxModifications
  /\ \E path \in DOMAIN disk : \E content \in FileContents(path) \ {disk[path]} :
       disk' = [disk EXCEPT ![path] = content]
  /\ modifications' = modifications + 1
  /\ UNCHANGED <<cache, chart_type, corrEGQ, corrE7X, selected_series, last_load>>
  /\ UNCHANGED <<loadVars, corrVars, tabVars>>

\* A call of a function under @st.cache_data: the memoized value of
\* (function, path) when there is one, whatever the file holds now; else a
\* value of `results`, what the function returns on the file, memoized.
CachedCall(fn, path, results, value) ==
  \/ /\ <<fn, path>> \in DOMAIN cache
     /\ value = cache[<<fn, path>>]
     /\ cache' = cache
     /\ last_load' = [path |-> path, content |-> disk[path], value |-> value]
  \/ /\ <<fn, path>> \notin DOMAIN cache
     /\ value \in results
     /\ cache' = (<<fn, path>> :> value) @@ cache
     /\ last_load' = [path |-> path, content |-> disk[path], value |-> value]

\* Line 39: corrEGQ = load_corr_data("corrEGQ.xlsx")
LoadCorrEGQ ==
  /\ pc = "L39"
  /\ \E value \in load_corr_data(disk[CorrEGQPath]) \cup {cache[k] : k \in DOMAIN cache} :
       /\ CachedCall(CorrFn, CorrEGQPath, load_corr_data(disk[CorrEGQPath]), value)
       /\ corrEGQ' = value
  /\ pc' = "L40"
  /\ UNCHANGED <<disk, chart_type, corrE7X, selected_series, modifications>>
  /\ UNCHANGED <<current_tab, rendered, stress_data, tabLocals>>
  /\ UNCHANGED <<loadVars, corrVars>>

\* Line 40: corrE7X = load_corr_data("corrE7X.xlsx")
LoadCorrE7X ==
  /\ pc = "L40"
  /\ \E value \in load_corr_data(disk[CorrE7XPath]) \cup {cache[k] : k \in DOMAIN cache} :
       /\ CachedCall(CorrFn, CorrE7XPath, load_corr_data(disk[CorrE7XPath]), value)
       /\ corrE7X' = value
  /\ pc' = "L66"
  /\ UNCHANGED <<disk, chart_type, corrEGQ, selected_series, modifications>>
  /\ UNCHANGED <<current_tab, rendered, stress_data, tabLocals>>
  /\ UNCHANGED <<loadVars, corrVars>>

\* stress_data = load_stress_data(path) under the memo of function fn, at
\* the place `at` of the script; an exception of the call ends the run
LoadStressAt(at, fn, path, next) ==
  /\ pc = at
  /\ \/ /\ <<fn, path>> \notin DOMAIN cache
        /\ load_stress_data(disk[path]).raised
        /\ pc' = "error"
        /\ rendered' = rendered \cup {"exception"}
        /\ UNCHANGED <<cache, stress_data, last_load>>
     \/ /\ <<fn, path>> \in DOMAIN cache \/ ~load_stress_data(disk[path]).raised
        /\ \E value \in {load_stress_data(disk[path]).df} \cup {cache[k] : k \in DOMAIN cache} :
             /\ CachedCall(fn, path, {load_stress_data(disk[path]).df}, value)
             /\ stress_data' = value
        /\ pc' = next
        /\ UNCHANGED rendered
  /\ UNCHANGED <<disk, chart_type, corrEGQ, corrE7X, selected_series, modifications>>
  /\ UNCHANGED <<current_tab, tabLocals>>
  /\ UNCHANGED <<loadVars, corrVars>>

\* Lines 355-362 and their copies: the stress file of the chart type
stress_path == IF chart_type = "EGQ vs Index and Cash" THEN StressEGQPath ELSE StressE7XPath

\* Line 66: stress_data = load_stress_data("stress_test_totE7X.xlsx")
LoadStress66 == LoadStressAt("L66", StressFnFirst, StressE7XPath, "tab_corr")

\* The Correlation tab with the stop left out: after the warning of an empty
\* series selection the script goes on below the tab
TabCorrContinue ==
  /\ pc = "tab_corr"
  /\ current_tab' = "Correlation"
  /\ \E selection \in SUBSET {"value"} :
       /\ selected_series' = selection
       /\ \/ /\ selection = {}
             /\ rendered' = rendered \cup {"warning_no_series"}
          \/ /\ selection # {}
             /\ rendered' = rendered \cup {"corr_title", "corr_charts", "download_time_series",
                                           "download_summary_stats"}
       /\ pc' = "L267"
  /\ UNCHANGED <<disk, cache, chart_type, corrEGQ, corrE7X, last_load, modifications>>
  /\ UNCHANGED <<stress_data, tabLocals>>
  /\ UNCHANGED <<loadVars, corrVars>>

\* Lines 71-220: the Correlation tab; an empty series selection stops the run
TabCorr ==
  /\ pc = "tab_corr"
  /\ current_tab' = "Correlation"
  /\ \E selection \in SUBSET {"value"} :
       /\ selected_series' = selection
       /\ \/ /\ selection = {}
             /\ rendered' = rendered \cup {"warning_no_series"}
             /\ pc' = "stopped"
          \/ /\ selection # {}
             /\ rendered' = rendered \cup {"corr_title", "corr_charts", "download_time_series",
                                           "download_summary_stats"}
             /\ pc' = "L267"
  /\ UNCHANGED <<disk, cache, chart_type, corrEGQ, corrE7X, last_load, modifications>>
  /\ UNCHANGED <<stress_data, tabLocals>>
  /\ UNCHANGED <<loadVars, corrVars>>

\* Lines 267, 316, 362 and 408: stress_data = load_stress_data(stress_path)
LoadStress267 == LoadStressAt("L267", StressFnLater, stress_path, "L316")

LoadStress316 == LoadStressAt("L316", StressFnLater, stress_path, "L362")

LoadStress362 == LoadStressAt("L362", StressFnLater, stress_path, "L408")

LoadStress408 == LoadStressAt("L408", StressFnLater, stress_path, "tab_stress")

\* A widget interaction after the run has ended: the script runs again from
\* its top, with the session state and the memo kept
ScriptRerun ==
  /\ pc \in {"end", "stopped", "error"}
  /\ pc' = "L39"
  /\ chart_type' \in ChartTypes
  /\ rendered' = {}
  /\ corrEGQ' = None
  /\ corrE7X' = None
  /\ selected_series' = None
  /\ stress_data' = None
  /\ selected_date' = None
  /\ df_filtered' = None
  /\ selected_portfolios' = None
  /\ selected_scenarios' = None
  /\ selected_portfolio' = None
  /\ df_bucket' = None
  /\ df_bucket_stats' = None
  /\ df_plot' = None
  /\ UNCHANGED <<disk, cache, last_load, modifications, current_tab>>
  /\ UNCHANGED <<loadVars, corrVars>>

\* ------------------------------------------------------------------------
\* Specifications
\* ------------------------------------------------------------------------
\* One call of load_stress_data on every workbook of Workbooks
Init == InitLoad /\ IdleCorr /\ IdleTab /\ IdleRun

Next == LoadOpen \/ LoadSheet \/ LoadReturn

Spec == Init /\ [][Next]_vars

\* One call of load_corr_data on every sheet of CorrSheets
InitCorrSpec == IdleLoad /\ InitCorr /\ IdleTab /\ IdleRun

NextCorr == CallLoadCorrData

SpecCorr == InitCorrSpec /\ [][NextCorr]_vars

\* The Stress Test tab on the records of every workbook of StressWorkbooks
InitStress == IdleLoad /\ IdleCorr /\ InitTab /\ IdleRun

NextStress ==
  StressDate \/ StressPortfolios \/ StressScenarios \/ StressBarChart \/ StressComparison

SpecStress == InitStress /\ [][NextStress]_vars

\* The comparison alone, on buckets of 0..MaxPeers values
InitBucketSpec == IdleLoad /\ IdleCorr /\ InitBucket /\ IdleRun

NextBucket == StressComparison

SpecBucket == InitBucketSpec /\ [][NextBucket]_vars

\* Script runs, one after another, while the files are rewritten
InitRunSpec == IdleLoad /\ IdleCorr /\ InitRun

NextRun ==
  \/ ModifyFile
  \/ LoadCorrEGQ \/ LoadCorrE7X \/ LoadStress66
  \/ TabCorr
  \/ LoadStress267 \/ LoadStress316 \/ LoadStress362 \/ LoadStress408
  \/ StressDate \/ StressPortfolios \/ StressScenarios \/ StressBarChart \/ StressComparison
  \/ ScriptRerun

SpecRun == InitRunSpec /\ [][NextRun]_vars

\* ========================================================================
\* Properties
\* ========================================================================
\* The loop has resolved at least one sheet
Resolved == lpc \in {"for", "raised", "returned"} /\ sheet_idx > 0

\* No token of the registry is a "_"-preceded suffix of the sheet name
NoMatch(name, registry) ==
  \A i \in 1..Len(registry) : ~EndsWith(name, Concat(<<US>>, registry[i]))

\* C1: whenever a token of the registry matches, the identity the loader gives a sheet is the longest-suffix match of
\* its name against the scenario registry, for every registry: (prefix,
\* token) for the first token, in the registry's length-descending order,
\* that the name ends with after a "_".
C1_LongestSuffixResolution ==
  Resolved =>
    \A registry \in Registries :
      ~NoMatch(sheet_name, registry) =>
        <<portfolio, scenario_name>> = LongestSuffixMatch(sheet_name, registry)

\* C2: round trip: whenever the resolved scenario is not "UNKNOWN",
\* portfolio + "_" + scenario is the sheet name, also for a sheet name
\* without any underscore.
C2_RoundTrip ==
  Resolved /\ scenario_name # UNKNOWN =>
    Concat(portfolio, Concat(<<US>>, scenario_name)) = sheet_name

\* C3: no-match fallback: a sheet name that matches no registered scenario
\* suffix, and so every sheet name without an underscore, resolves to
\* (the whole sheet name, "UNKNOWN"), and the loop goes on.
C3_NoMatchFallback ==
  Resolved =>
    /\ \A registry \in Registries :
         NoMatch(sheet_name, registry) =>
           portfolio = sheet_name /\ scenario_name = UNKNOWN
    /\ ~HasUnderscore(sheet_name) =>
         portfolio = sheet_name /\ scenario_name = UNKNOWN
    /\ (\A k \in 1..Len(xls) : xls[k].ncols >= 5) => lpc # "raised"

\* Every sheet of the workbook has at least five columns
AllWide == \A k \in 1..Len(xls) : xls[k].ncols >= 5

\* The number of rows of the sheets before sheet k
RECURSIVE RowsBefore(_, _)
RowsBefore(workbook, k) ==
  IF k <= 1 THEN 0 ELSE RowsBefore(workbook, k - 1) + Len(workbook[k - 1].rows)

ALPHA == <<"A","L","P","H","A">>
BETA == <<"B","E","T","A">>

\* The workbook of the worked example: three sheets of one row each
IsExampleWorkbook ==
  /\ [k \in 1..Len(xls) |-> xls[k].name] = <<ALPHA_RATES_UP, ALPHA_RATES_DOWN, BETA_RATES_UP>>
  /\ \A k \in 1..Len(xls) : xls[k].ncols >= 5 /\ Len(xls[k].rows) = 1

\* C4: for a workbook whose sheets all have at least five columns the call
\* returns, and what it returns is the tagged union of the sheets: as many
\* records as the sheets have rows, in sheet order and row order, duplicates
\* kept, each record holding the 1st, 3rd and 5th cell of its row and the
\* Portfolio and ScenarioName resolved from the name of its own sheet.  The
\* worked example yields 3 records, portfolios ALPHA, ALPHA, BETA, scenarios
\* RATES_UP, RATES_DOWN, RATES_UP.
C4_TaggedUnion ==
  AllWide =>
    /\ lpc # "raised"
    /\ lpc = "returned" =>
         /\ Len(stress_ret) = RowsBefore(xls, Len(xls) + 1)
         /\ \A k \in 1..Len(xls) : \A r \in 1..Len(xls[k].rows) :
              stress_ret[RowsBefore(xls, k) + r] =
                [Date |-> xls[k].rows[r][1],
                 Scenario |-> xls[k].rows[r][3],
                 StressPnL |-> xls[k].rows[r][5],
                 Portfolio |-> ResolveSheetName(xls[k].name)[1],
                 ScenarioName |-> ResolveSheetName(xls[k].name)[2]]
         /\ IsExampleWorkbook =>
              /\ [i \in 1..Len(stress_ret) |-> stress_ret[i].Portfolio] = <<ALPHA, ALPHA, BETA>>
              /\ [i \in 1..Len(stress_ret) |-> stress_ret[i].ScenarioName]
                   = <<RATES_UP, RATES_DOWN, RATES_UP>>

\* C4's case: the call has returned the three records of the worked example
C4_Witness == lpc = "returned" /\ IsExampleWorkbook /\ Len(stress_ret) = 3

\* The first sheet with fewer than five columns (when there is one)
FirstShort == CHOOSE k \in 1..Len(xls) :
  xls[k].ncols < 5 /\ \A j \in 1..(k - 1) : xls[j].ncols >= 5

\* C5: when any sheet of the workbook has fewer than five columns, wherever
\* it stands, the call never returns: the loop ends in the error at that
\* sheet, no record set is returned, and the sheet is not skipped.
C5_ShortSheetIsFatal ==
  /\ ~AllWide =>
       /\ lpc # "returned"
       /\ stress_ret = None
       /\ lpc = "for" => sheet_idx < FirstShort
       /\ lpc = "raised" => sheet_idx = FirstShort
  /\ lpc = "raised" => ~AllWide

\* C5's case: the error at a last sheet, after frames with rows were built
C5_Witness ==
  /\ lpc = "raised"
  /\ sheet_idx = Len(xls)
  /\ Len(xls) >= 2
  /\ pd_concat(records) # <<>>
  /\ stress_ret = None

\* Some date stands twice in the first column of the sheet
HasDuplicateDate(sheet) ==
  \E i, j \in 1..Len(sheet) : i < j /\ sheet[i].Date = sheet[j].Date

\* The returned rows are the rows of the sheet, each once, values unchanged
SameRows(df, sheet) ==
  /\ Len(df) = Len(sheet)
  /\ \E f \in IndexPermutations(Len(sheet)) : \A i \in 1..Len(sheet) : df[i] = sheet[f[i]]

\* C7 as stated: for every sheet the returned index is sorted ascending and
\* unique, also for a sheet that holds a date twice, and the series are
\* returned unscaled.
C7_IndexSortedAndUnique ==
  cpc = "returned" =>
    /\ \A i, j \in 1..Len(corr_ret) :
         i < j => DateLE(corr_ret[i].Date, corr_ret[j].Date) /\ corr_ret[i].Date # corr_ret[j].Date
    /\ SameRows(corr_ret, corr_sheet)

\* C7 as amended: for every sheet the returned table holds the rows of the
\* sheet, each once and unscaled, indexed by the dates of the first column
\* in ascending (non-decreasing) order; the index is unique exactly when the
\* dates of the sheet are distinct, a date that stands twice in the sheet
\* stands twice in the index.
C7_IndexSortedRowsKept ==
  cpc = "returned" =>
    /\ \A i, j \in 1..Len(corr_ret) : i < j => DateLE(corr_ret[i].Date, corr_ret[j].Date)
    /\ SameRows(corr_ret, corr_sheet)
    /\ HasDuplicateDate(corr_ret) <=> HasDuplicateDate(corr_sheet)

\* C7's case: an unsorted sheet that holds a date twice has been loaded
C7_Witness ==
  /\ cpc = "returned"
  /\ Len(corr_sheet) = 3
  /\ corr_sheet[1].Date[1] > corr_sheet[2].Date[1]
  /\ HasDuplicateDate(corr_sheet)
  /\ corr_ret # corr_sheet

\* The StressPnL values of the records of stress_data at the selected date,
\* of the selected portfolios and scenarios, of a portfolio other than the
\* analysis portfolio, and of the scenario
PeerValuesOf(scenario) ==
  LET rows == SelectSeq(stress_data, LAMBDA r :
                /\ r.Date = selected_date
                /\ r.Portfolio \in selected_portfolios
                /\ r.ScenarioName \in selected_scenarios
                /\ r.Portfolio # selected_portfolio
                /\ r.ScenarioName = scenario)
  IN [i \in 1..Len(rows) |-> rows[i].StressPnL]

\* C8: the statistics of every scenario row of the comparison are those of
\* the peers only: median and quartiles of exactly the StressPnL values, at
\* the selected date and within the selected portfolios and scenarios, of
\* the records of another portfolio than the analysis portfolio and of that
\* scenario.
C8_PeersExcludeSubject ==
  pc = "end" =>
    /\ \A sc \in DOMAIN df_bucket_stats :
         /\ ValuesOf(df_bucket, sc) = PeerValuesOf(sc)
         /\ df_bucket_stats[sc].bucket_median = Median4(PeerValuesOf(sc))
         /\ df_bucket_stats[sc].q25 = Quantile4(PeerValuesOf(sc), 1)
         /\ df_bucket_stats[sc].q75 = Quantile4(PeerValuesOf(sc), 3)
    /\ \A i \in 1..Len(df_plot) :
         /\ df_plot[i].ScenarioName \in DOMAIN df_bucket_stats
         /\ df_plot[i].bucket_median = Median4(PeerValuesOf(df_plot[i].ScenarioName))
         /\ df_plot[i].q25 = Quantile4(PeerValuesOf(df_plot[i].ScenarioName), 1)
         /\ df_plot[i].q75 = Quantile4(PeerValuesOf(df_plot[i].ScenarioName), 3)

\* C8's case: a comparison whose row has peers of another value than the
\* analysis portfolio's, on data with a record the selectors left out
C8_Witness ==
  /\ pc = "end"
  /\ Len(df_plot) >= 1
  /\ PeerValuesOf(df_plot[1].ScenarioName) # <<>>
  /\ df_plot[1].bucket_median # 4 * df_plot[1].StressPnL
  /\ Len(df_filtered) < Len(stress_data)

\* C9: the comparison never shows or exports a scenario row whose peer
\* statistics come from an empty peer set; and when no record of another
\* portfolio is left, it stops with the warning and computes no statistics.
C9_NoDegenerateStatistics ==
  /\ pc = "end" =>
       \A i \in 1..Len(df_plot) : ValuesOf(df_bucket, df_plot[i].ScenarioName) # <<>>
  /\ (pc \in {"end", "stopped"} /\ selected_portfolio # None /\ Len(df_bucket) = 0) =>
       /\ pc = "stopped"
       /\ "warning_no_bucket" \in rendered
       /\ "bucket_chart" \notin rendered

\* The worked example: A=10 against the peers B=20 and C=30
IsPeerExample ==
  /\ pc = "end"
  /\ stress_data = BucketFrame(<<20, 30>>)
  /\ selected_portfolio = PA

\* Every row with peers has q25 <= median <= q75
QuantilesMonotone ==
  \A i \in 1..Len(df_plot) :
    ValuesOf(df_bucket, df_plot[i].ScenarioName) # <<>> =>
      df_plot[i].q25 <= df_plot[i].bucket_median /\ df_plot[i].bucket_median <= df_plot[i].q75

\* C10 as stated: the worked example yields median 25, q25 = 20 and
\* q75 = 30, and q25 <= median <= q75 for every peer set (values times 4).
C10_WorkedExampleNearest ==
  pc = "end" =>
    /\ IsPeerExample =>
         df_plot = <<[ScenarioName |-> SX, StressPnL |-> 10,
                      bucket_median |-> 100, q25 |-> 80, q75 |-> 120]>>
    /\ QuantilesMonotone

\* C10 as amended: the worked example yields median 25, q25 = 22.5 and
\* q75 = 27.5, the linearly interpolated quartiles of {20, 30}, and
\* q25 <= median <= q75 for every peer set (values times 4).
C10_WorkedExampleLinear ==
  pc = "end" =>
    /\ IsPeerExample =>
         df_plot = <<[ScenarioName |-> SX, StressPnL |-> 10,
                      bucket_median |-> 100, q25 |-> 90, q75 |-> 110]>>
    /\ QuantilesMonotone

\* C10's case: the comparison of the worked example has been made
C10_Witness == IsPeerExample /\ Len(df_plot) = 1 /\ Len(df_bucket) = 2

\* C6 (its second half): a load of a path whose file has changed since its
\* result was memoized returns the records parsed from the new content,
\* never the memoized ones: whatever a load returns is what the function
\* makes of the content the file has at that call.
C6_LoadReturnsCurrentContent ==
  last_load.path # "" =>
    IF last_load.path \in CorrPaths
    THEN last_load.value \in load_corr_data(last_load.content)
    ELSE /\ ~load_stress_data(last_load.content).raised
         /\ last_load.value = load_stress_data(last_load.content).df

\* What the Correlation tab draws and exports from the selected series
SeriesDependents ==
  {"corr_title", "corr_charts", "download_time_series", "download_summary_stats"}

\* What the Stress Test tab draws and exports from the selected portfolios
\* and scenarios
StressDependents ==
  {"bar_chart", "download_stress_pnl", "bucket_chart", "download_vs_bucket"}

\* C11: a selector that returns an empty selection (series, portfolios or
\* scenarios) ends the run in the stopped state with the selector's warning
\* shown, none of the charts, tables and downloads that depend on the
\* selection rendered, and no exception; a stopped run renders nothing more.
C11_EmptySelectionStops ==
  [][/\ (pc = "tab_corr" /\ pc' # "tab_corr" /\ selected_series' = {}) =>
          /\ pc' = "stopped"
          /\ "warning_no_series" \in rendered'
          /\ rendered' \cap SeriesDependents = {}
          /\ "exception" \notin rendered'
     /\ (pc = "portfolios" /\ pc' # "portfolios" /\ selected_portfolios' = {}) =>
          /\ pc' = "stopped"
          /\ "warning_no_portfolio" \in rendered'
          /\ rendered' \cap StressDependents = {}
          /\ "exception" \notin rendered'
     /\ (pc = "scenarios" /\ pc' # "scenarios" /\ selected_scenarios' = {}) =>
          /\ pc' = "stopped"
          /\ "warning_no_scenario" \in rendered'
          /\ rendered' \cap StressDependents = {}
          /\ "exception" \notin rendered'
     /\ (pc = "stopped" /\ pc' = "stopped") => rendered' = rendered
    ]_vars

\* C11's case: a run that drew the Correlation tab has stopped at the empty
\* portfolio selection
C11_Witness ==
  /\ pc = "stopped"
  /\ "warning_no_portfolio" \in rendered
  /\ "corr_charts" \in rendered
  /\ selected_portfolios = {}

\* Everything the Stress Test tab produces
StressContent ==
  {"stress_title", "warning_no_data", "warning_no_portfolio", "warning_no_scenario",
   "warning_no_bucket"} \cup StressDependents

\* C12: the tabs run in sequence within one run. An empty series selection
\* in the Correlation tab stops the run with current_tab "Correlation" and
\* nothing of the Stress Test tab produced, and that stays so until the next
\* run; Stress Test content is only produced with current_tab "StressTest",
\* in a run whose Correlation tab was drawn; a run that reaches its end has
\* current_tab "StressTest".
C12_TabsInSequence ==
  [][/\ (pc = "tab_corr" /\ pc' # "tab_corr" /\ selected_series' = {}) =>
          /\ pc' = "stopped"
          /\ current_tab' = "Correlation"
          /\ rendered' \cap StressContent = {}
     /\ (pc = "stopped" /\ pc' = "stopped") => UNCHANGED <<current_tab, rendered>>
     /\ rendered' \cap StressContent # {} =>
          /\ current_tab' = "StressTest"
          /\ SeriesDependents \subseteq rendered'
     /\ pc' = "end" => current_tab' = "StressTest"
    ]_vars

\* C12's case: an earlier run of the session went past the Correlation tab,
\* and this run has stopped at the empty series selection
C12_Witness ==
  /\ pc = "stopped"
  /\ "warning_no_series" \in rendered
  /\ current_tab = "Correlation"
  /\ \E path \in StressPaths : <<StressFnLater, path>> \in DOMAIN cache

=============================================================================
